---- MODULE Spec2Model ----
(***************************************************************************)
(* StoreRegistry of starlite/stores/registry.py: a dict of named stores    *)
(* with lazy creation through a default factory.                           *)
(*                                                                         *)
(* The specifications share the state:                                     *)
(*   Spec            every call (register, get, default) on one registry   *)
(*                   runs to completion;                                   *)
(*   SpecConc        several threads run one call each on one registry,    *)
(*                   interleaved line by line (the class holds no lock);   *)
(*   SpecRegistries  two registries are constructed and called, their      *)
(*                   _stores being references to dict objects;             *)
(*   SpecClient      create_test_client and create_async_test_client of    *)
(*                   starlite/testing/helpers.py build the app of a test   *)
(*                   client from a route_handlers argument.                *)
(***************************************************************************)
EXTENDS Integers, FiniteSets, Sequences, TLC

\* Bounds of the model.
MaxStores == 3     \* store objects that can be constructed in one behaviour
NThreads == 2      \* threads of SpecConc
MaxRegistryStores == 2   \* store objects in one behaviour of SpecRegistries
MaxHandlers == 3   \* length of a route_handlers list or tuple (SpecClient)

Names == {"default", "a"}
Threads == 1..NThreads

(***************************************************************************)
(* Python values.  A store object is its identity (id) and its truth value *)
(* (a Store subclass may define __bool__ or __len__).  None has identity 0 *)
(* and is falsy.                                                           *)
(***************************************************************************)
None == [id |-> 0, falsy |-> TRUE]

\* `not v`
Falsy(v) == v.falsy

\* The objects constructed so far: h[i] tells whether object i is falsy.
Objects(h) == {[id |-> i, falsy |-> h[i]] : i \in 1..Len(h)}

\* The objects a constructor call can yield next.
Fresh(h) == IF Len(h) < MaxStores
            THEN {[id |-> Len(h) + 1, falsy |-> b] : b \in BOOLEAN}
            ELSE {}

\* The heap after v came into use.
Alloc(h, v) == IF v.id = Len(h) + 1 THEN Append(h, v.falsy) ELSE h

\* dict operations
EmptyDict == [n \in {} |-> None]
DictGet(d, k) == IF k \in DOMAIN d THEN d[k] ELSE None
DictSet(d, k, v) == [n \in DOMAIN d \cup {k} |-> IF n = k THEN v ELSE d[n]]

VARIABLES
  stores,           \* self._stores
  default_factory,  \* self._default_factory: "default_default_factory" or "custom"
  heap,             \* per store object constructed so far, whether it is falsy
  seed,             \* history: self._stores as __init__ left it
  how,              \* history: per name, what last bound it: "absent", "seed",
                    \*   "register" (a successful register) or "factory" (a get
                    \*   that found no entry)
  expect,           \* history: per name, the store that bound it then
  last,             \* history: the last completed call (Spec)
  invoked,          \* history: factory invocations per name (SpecConc)
  th,               \* per thread: the frame of its call (SpecConc)
  dicts,            \* the dict objects that exist (SpecRegistries)
  regs,             \* per registry: whether it is constructed, whether a stores
                    \*   mapping was passed, and the dict its _stores refers to
  acted,            \* history: the registry of the last call (SpecRegistries)
  client,           \* the test client the last factory call built (SpecClient)
  given_handlers,   \* history: the route_handlers argument of that call
  app_handlers      \* the route_handlers its Starlite app was built with

vars == <<stores, default_factory, heap, seed, how, expect, last, invoked, th,
          dicts, regs, acted, client, given_handlers, app_handlers>>

\* The registries of SpecRegistries.
Registries == {"r1", "r2"}

\* A registry that is not constructed yet.
NotMade == [made |-> FALSE, given |-> FALSE, ref |-> 0]

\* Spec and SpecConc hold one registry, in stores.
NoRegistries ==
  /\ dicts = <<>>
  /\ regs = [r \in Registries |-> NotMade]
  /\ acted = "none"

\* The calls of Spec and SpecConc leave the variables of the other
\* specifications alone.
OneRegistry == UNCHANGED <<dicts, regs, acted, client, given_handlers, app_handlers>>

\* route_handlers values: None, one handler (a route handler function, a
\* Router instance or a Controller subclass), or a list or tuple of handlers.
\* items holds the elements of a list or tuple, each by its type.
PyNone == [type |-> "NoneType", items |-> <<>>]
EmptyTuple == [type |-> "tuple", items |-> <<>>]

\* No test client is built outside SpecClient.
NoClient ==
  /\ client = "none"
  /\ given_handlers = PyNone
  /\ app_handlers = PyNone

\* MemoryStore(): a new in-memory store; a plain object, hence truthy.
MemoryStore(h) == {v \in Fresh(h) : ~v.falsy}

\* A factory that always hands out the first store ever constructed.
SharedStoreFactory(name, h) ==
  IF Len(h) >= 1 THEN {[id |-> 1, falsy |-> h[1]]} ELSE MemoryStore(h)

\* default_default_factory(name): the name is ignored.
default_default_factory(name, h) == MemoryStore(h)

\* A factory supplied by the caller: any store, new or not, of any truth value.
CustomFactory(name, h) == Objects(h) \cup Fresh(h)

\* Whether self._default_factory(name) can raise: MemoryStore() does not, a
\* factory supplied by the caller may (it may connect to an external cache).
FactoryMayRaise(kind) == kind = "custom"

\* self._default_factory(name): the stores the call can return.
CallFactory(kind, name, h) ==
  IF kind = "default_default_factory"
  THEN default_default_factory(name, h)
  ELSE CustomFactory(name, h)

\* __init__, line 34: stores or {}
StoresOrEmpty(arg) == IF ~arg.given \/ DOMAIN arg.dict = {} THEN EmptyDict ELSE arg.dict

\* The stores arguments of __init__: None, {} or one seeded name.
StoresArgs ==
  {[given |-> FALSE, dict |-> EmptyDict], [given |-> TRUE, dict |-> EmptyDict]}
  \cup {[given |-> TRUE, dict |-> DictSet(EmptyDict, n, [id |-> 1, falsy |-> b])] :
          n \in Names, b \in BOOLEAN}

NoCall == [op |-> "none", name |-> "", store |-> None, override |-> FALSE,
           ret |-> None, raised |-> FALSE, ncalls |-> 0, factory_arg |-> ""]

Idle == [pc |-> "idle", op |-> "none", name |-> "", arg |-> None,
         override |-> FALSE, store |-> None, ret |-> None, raised |-> FALSE]

\* StoreRegistry.__init__
Init ==
  \E arg \in StoresArgs, kind \in {"default_default_factory", "custom"} :
    /\ stores = StoresOrEmpty(arg)
    /\ default_factory = kind
    /\ heap = IF DOMAIN arg.dict = {} THEN <<>>
              ELSE <<arg.dict[CHOOSE n \in DOMAIN arg.dict : TRUE].falsy>>
    /\ seed = StoresOrEmpty(arg)
    /\ how = [n \in Names |-> IF n \in DOMAIN arg.dict THEN "seed" ELSE "absent"]
    /\ expect = [n \in Names |-> DictGet(arg.dict, n)]
    /\ last = NoCall
    /\ invoked = [n \in Names |-> 0]
    /\ th = [t \in Threads |-> Idle]
    /\ NoRegistries
    /\ NoClient

(***************************************************************************)
(* Spec: calls run to completion, one after the other.                     *)
(***************************************************************************)

\* The stores a caller can pass to register: one it holds or one it constructs.
CallerStores(h) == Objects(h) \cup Fresh(h)

\* register, line 48: not override and name in self._stores
IsDuplicate(d, name, override) == ~override /\ name \in DOMAIN d

\* StoreRegistry.register
register(name, store, override) ==
  /\ store \in CallerStores(heap)
  /\ heap' = Alloc(heap, store)
  /\ IF IsDuplicate(stores, name, override)
     THEN \* line 49: raise ValueError
          /\ last' = [op |-> "register", name |-> name, store |-> store,
                      override |-> override, ret |-> None, raised |-> TRUE,
                      ncalls |-> 0, factory_arg |-> ""]
          /\ UNCHANGED <<stores, how, expect>>
     ELSE \* line 50: self._stores[name] = store
          /\ stores' = DictSet(stores, name, store)
          /\ how' = [how EXCEPT ![name] = "register"]
          /\ expect' = [expect EXCEPT ![name] = store]
          /\ last' = [op |-> "register", name |-> name, store |-> store,
                      override |-> override, ret |-> None, raised |-> FALSE,
                      ncalls |-> 0, factory_arg |-> ""]
  /\ UNCHANGED <<default_factory, seed, invoked, th>>

\* get, line 63: `if not store`
Misses(store) == Falsy(store)

\* StoreRegistry.get, called as get or through the default property.
get_as(op, name) ==
  LET store == DictGet(stores, name) IN          \* line 62
  /\ IF Misses(store)                            \* line 63
     THEN \* line 64: store = self._stores[name] = self._default_factory(name)
          \/ \E new \in CallFactory(default_factory, name, heap) :
               /\ heap' = Alloc(heap, new)
               /\ stores' = DictSet(stores, name, new)
               /\ IF how[name] = "absent"
                  THEN /\ how' = [how EXCEPT ![name] = "factory"]
                       /\ expect' = [expect EXCEPT ![name] = new]
                  ELSE UNCHANGED <<how, expect>>
               /\ last' = [op |-> op, name |-> name, store |-> None,
                           override |-> FALSE, ret |-> new, raised |-> FALSE,
                           ncalls |-> 1, factory_arg |-> name]
          \* the factory raises: the exception leaves get before any assignment
          \/ /\ FactoryMayRaise(default_factory)
             /\ last' = [op |-> op, name |-> name, store |-> None,
                         override |-> FALSE, ret |-> None, raised |-> TRUE,
                         ncalls |-> 1, factory_arg |-> name]
             /\ UNCHANGED <<stores, heap, how, expect>>
     ELSE /\ last' = [op |-> op, name |-> name, store |-> None,
                      override |-> FALSE, ret |-> store, raised |-> FALSE,
                      ncalls |-> 0, factory_arg |-> ""]
          /\ UNCHANGED <<stores, heap, how, expect>>
  /\ UNCHANGED <<default_factory, seed, invoked, th>>

\* StoreRegistry.get
get(name) == get_as("get", name)

\* StoreRegistry.default
default == get_as("default", "default")

Next ==
  \/ \E name \in Names, store \in CallerStores(heap), override \in BOOLEAN :
       register(name, store, override) /\ OneRegistry
  \/ \E name \in Names : get(name) /\ OneRegistry
  \/ default /\ OneRegistry

Spec == Init /\ [][Next]_vars

(***************************************************************************)
(* SpecConc: each thread makes one call; a thread switch can fall between  *)
(* any two lines, since the registry takes no lock.  pc names the line the *)
(* thread executes next.                                                   *)
(***************************************************************************)

Frame(t, f) == th' = [th EXCEPT ![t] = f]

\* A thread enters register(name, store, override).
call_register(t, name, store, override) ==
  /\ th[t].pc = "idle"
  /\ store \in CallerStores(heap)
  /\ heap' = Alloc(heap, store)
  /\ Frame(t, [Idle EXCEPT !.pc = "reg48", !.op = "register", !.name = name,
                           !.arg = store, !.override = override])
  /\ UNCHANGED <<stores, default_factory, seed, how, expect, last, invoked>>

\* A thread enters get(name).
call_get(t, name) ==
  /\ th[t].pc = "idle"
  /\ Frame(t, [Idle EXCEPT !.pc = "get62", !.op = "get", !.name = name])
  /\ UNCHANGED <<stores, default_factory, heap, seed, how, expect, last, invoked>>

\* A thread reads the default property: return self.get("default").
call_default(t) ==
  /\ th[t].pc = "idle"
  /\ Frame(t, [Idle EXCEPT !.pc = "get62", !.op = "default", !.name = "default"])
  /\ UNCHANGED <<stores, default_factory, heap, seed, how, expect, last, invoked>>

\* line 48: if not override and name in self._stores
reg48(t) ==
  /\ th[t].pc = "reg48"
  /\ Frame(t, [th[t] EXCEPT !.pc =
       IF IsDuplicate(stores, th[t].name, th[t].override) THEN "reg49" ELSE "reg50"])
  /\ UNCHANGED <<stores, default_factory, heap, seed, how, expect, last, invoked>>

\* line 49: raise ValueError
reg49(t) ==
  /\ th[t].pc = "reg49"
  /\ Frame(t, [th[t] EXCEPT !.pc = "done", !.raised = TRUE])
  /\ UNCHANGED <<stores, default_factory, heap, seed, how, expect, last, invoked>>

\* line 50: self._stores[name] = store
reg50(t) ==
  /\ th[t].pc = "reg50"
  /\ stores' = DictSet(stores, th[t].name, th[t].arg)
  /\ Frame(t, [th[t] EXCEPT !.pc = "done"])
  /\ UNCHANGED <<default_factory, heap, seed, how, expect, last, invoked>>

\* line 62: store = self._stores.get(name)
get62(t) ==
  /\ th[t].pc = "get62"
  /\ Frame(t, [th[t] EXCEPT !.pc = "get63", !.store = DictGet(stores, th[t].name)])
  /\ UNCHANGED <<stores, default_factory, heap, seed, how, expect, last, invoked>>

\* line 63: if not store
get63(t) ==
  /\ th[t].pc = "get63"
  /\ Frame(t, [th[t] EXCEPT !.pc = IF Misses(th[t].store) THEN "get64" ELSE "get65"])
  /\ UNCHANGED <<stores, default_factory, heap, seed, how, expect, last, invoked>>

\* line 64, right-hand side: self._default_factory(name), and the assignment
\* to the local store
get64(t) ==
  /\ th[t].pc = "get64"
  /\ invoked' = [invoked EXCEPT ![th[t].name] = @ + 1]
  /\ \/ \E new \in CallFactory(default_factory, th[t].name, heap) :
          /\ heap' = Alloc(heap, new)
          /\ Frame(t, [th[t] EXCEPT !.pc = "get64s", !.store = new])
     \/ /\ FactoryMayRaise(default_factory)
        /\ Frame(t, [th[t] EXCEPT !.pc = "done", !.raised = TRUE])
        /\ UNCHANGED heap
  /\ UNCHANGED <<stores, default_factory, seed, how, expect, last>>

\* line 64, second target: self._stores[name] = store
get64s(t) ==
  /\ th[t].pc = "get64s"
  /\ stores' = DictSet(stores, th[t].name, th[t].store)
  /\ Frame(t, [th[t] EXCEPT !.pc = "get65"])
  /\ UNCHANGED <<default_factory, heap, seed, how, expect, last, invoked>>

\* line 65: return store
get65(t) ==
  /\ th[t].pc = "get65"
  /\ Frame(t, [th[t] EXCEPT !.pc = "done", !.ret = th[t].store])
  /\ UNCHANGED <<stores, default_factory, heap, seed, how, expect, last, invoked>>

NextConc ==
  \E t \in Threads :
    \/ \E name \in Names, store \in CallerStores(heap), override \in BOOLEAN :
         call_register(t, name, store, override) /\ OneRegistry
    \/ \E name \in Names : call_get(t, name) /\ OneRegistry
    \/ call_default(t) /\ OneRegistry
    \/ reg48(t) /\ OneRegistry
    \/ reg49(t) /\ OneRegistry
    \/ reg50(t) /\ OneRegistry
    \/ get62(t) /\ OneRegistry
    \/ get63(t) /\ OneRegistry
    \/ get64(t) /\ OneRegistry
    \/ get64s(t) /\ OneRegistry
    \/ get65(t) /\ OneRegistry

SpecConc == Init /\ [][NextConc]_vars

(***************************************************************************)
(* The claims.  Under Spec every step is one completed call, described by  *)
(* last' ; the unprimed variables are the registry before that call.       *)
(***************************************************************************)

\* n was neither seeded at construction nor ever registered.
NeverRegistered(n) == n \notin DOMAIN seed /\ how[n] # "register"

\* C1: for a name that was never registered, the first get(name) invokes the
\* factory exactly once, with that name, stores the result under the name and
\* returns it; every later get(name) returns that same instance and does not
\* invoke the factory.
C1_FirstGetCreatesLaterGetsReuse ==
  [][\A n \in Names :
       (last'.op = "get" /\ last'.name = n /\ ~last'.raised /\ NeverRegistered(n))
         => IF how[n] = "absent"
            THEN /\ last'.ncalls = 1
                 /\ last'.factory_arg = n
                 /\ DictGet(stores', n) = last'.ret
            ELSE /\ last'.ncalls = 0
                 /\ last'.ret = expect[n]]_vars

\* C2: after a successful register(name, store), every get(name) returns that
\* store and does not invoke the factory, whatever the store's truth value.
C2_GetReturnsRegisteredStore ==
  \A n \in Names :
    (last.op = "get" /\ last.name = n /\ how[n] = "register")
      => last.ret = expect[n] /\ last.ncalls = 0 /\ ~last.raised

\* C3: register(name, store, override=False) on a name that has an entry
\* raises and leaves the registry as it was, and a get(name) that follows
\* returns the store that was bound.
C3_DuplicateRegisterLeavesEntry ==
  [][/\ (last'.op = "register" /\ ~last'.override /\ last'.name \in DOMAIN stores)
          => last'.raised /\ stores' = stores
     /\ (last.op = "register" /\ last.raised /\ last'.op = "get"
           /\ last'.name = last.name)
          => ~last'.raised /\ last'.ret = stores[last.name] /\ stores' = stores]_vars

\* C4: register with override=True, or on a name without an entry, succeeds
\* and binds the store; a get(name) that follows returns that store.
C4_RegisterBindsAndGetReturnsIt ==
  [][/\ (last'.op = "register" /\ (last'.override \/ last'.name \notin DOMAIN stores))
          => ~last'.raised /\ DictGet(stores', last'.name) = last'.store
     /\ (last.op = "register" /\ ~last.raised /\ last'.op = "get"
           /\ last'.name = last.name)
          => ~last'.raised /\ last'.ret = last.store]_vars

\* C8: an entry is never removed, and the store of a name that has an entry
\* changes only by a successful register for that name, never by get or default.
C8_OnlyRegisterReplaces ==
  [][\A n \in DOMAIN stores :
       /\ n \in DOMAIN stores'
       /\ stores'[n] # stores[n]
            => last'.op = "register" /\ last'.name = n /\ ~last'.raised]_vars

\* C9: default behaves as get("default"): on a registry where "default" was
\* never bound it invokes the factory once, for "default"; later calls of
\* default and of get("default") return that instance; after
\* register("default", s) default returns s.
C9_DefaultIsGetDefault ==
  [][/\ last'.op = "default"
          => /\ last'.name = "default"
             /\ (how["default"] = "absent" /\ ~last'.raised)
                  => /\ last'.ncalls = 1
                     /\ last'.factory_arg = "default"
                     /\ DictGet(stores', "default") = last'.ret
             /\ how["default"] \in {"factory", "register"}
                  => ~last'.raised /\ last'.ret = expect["default"]
     /\ (last'.op = "get" /\ last'.name = "default" /\ how["default"] = "factory")
          => ~last'.raised /\ last'.ret = expect["default"]]_vars

\* C10: with the fallback factory, names bound by lazy creation never share a
\* store: two distinct never-registered names hold, and were handed, two
\* distinct store instances.
C10_FallbackStoresAreDistinct ==
  default_factory = "default_default_factory"
    => \A n, m \in Names :
         (n # m /\ NeverRegistered(n) /\ NeverRegistered(m)
            /\ how[n] = "factory" /\ how[m] = "factory")
           => /\ expect[n].id # expect[m].id
              /\ stores[n] = expect[n]
              /\ stores[m] = expect[m]

\* C10 happens: both names were created by get under the fallback factory.
C10_Witness ==
  /\ default_factory = "default_default_factory"
  /\ \A n \in Names : NeverRegistered(n) /\ how[n] = "factory"
  /\ last.op = "get" /\ last.ncalls = 1

(***************************************************************************)
(* Claims about concurrent calls, under SpecConc.  They are stated for     *)
(* truthy stores and names without an initial entry, so that what decides  *)
(* them is the interleaving alone.                                         *)
(***************************************************************************)

AllTruthy == \A i \in 1..Len(heap) : ~heap[i]

Returned(t) == th[t].pc = "done" /\ ~th[t].raised

\* C5: when all threads call get(y) for a name without an entry, the factory
\* is invoked exactly once for y and every caller receives the one store
\* bound to y.
C5_ConcurrentMissesCreateOnce ==
  \A y \in Names :
    (/\ y \notin DOMAIN seed
     /\ AllTruthy
     /\ \A t \in Threads : Returned(t) /\ th[t].op = "get" /\ th[t].name = y)
      => /\ invoked[y] = 1
         /\ \A t \in Threads : th[t].ret = DictGet(stores, y)

\* C6: when all threads call register(n, ., override=False), each with a
\* store of its own, for a name without an entry, exactly one call succeeds
\* and the others raise.
C6_ConcurrentRegisterOneWinner ==
  \A n \in Names :
    (/\ n \notin DOMAIN seed
     /\ \A t, u \in Threads : t # u => th[t].arg # th[u].arg
     /\ \A t \in Threads :
          /\ th[t].pc = "done" /\ th[t].op = "register"
          /\ th[t].name = n /\ ~th[t].override)
      => Cardinality({t \in Threads : ~th[t].raised}) = 1

\* C7: when a get(n) runs concurrently with a register(n, storeA) that
\* succeeds, the entry of n is storeA afterwards and the get caller holds
\* the store that is bound to n.
C7_GetAtomicAgainstRegister ==
  \A n \in Names : \A t, u \in Threads :
    (/\ n \notin DOMAIN seed
     /\ AllTruthy
     /\ \A v \in Threads : v \in {t, u} \/ th[v].pc = "idle"
     /\ Returned(t) /\ th[t].op = "get" /\ th[t].name = n
     /\ Returned(u) /\ th[u].op = "register" /\ th[u].name = n)
      => /\ DictGet(stores, n) = th[u].arg
         /\ th[t].ret = DictGet(stores, n)

(***************************************************************************)
(* Claims about a failing factory, seeded registries and frame effects,    *)
(* under Spec.                                                             *)
(***************************************************************************)

\* C11: when the factory raises during get(name), get raises after that one
\* invocation and returns no store, the registry is as before the call with
\* no entry for the name, and a get(name) that follows misses again and
\* invokes the factory.
C11_FailingFactoryLeavesNoEntry ==
  [][/\ (last'.op \in {"get", "default"} /\ last'.raised)
          => /\ last'.ncalls = 1
             /\ last'.ret = None
             /\ stores' = stores
             /\ last'.name \notin DOMAIN stores'
     /\ (last.op = "get" /\ last.raised /\ last'.op = "get"
           /\ last'.name = last.name)
          => last'.ncalls = 1]_vars
\* C12: a name seeded through the stores mapping of the constructor counts
\* as registered: get(name) returns the seeded store without invoking the
\* factory, and register(name, other, override=False) raises.
C12_SeededNameIsRegistered ==
  /\ (last.op = "get" /\ how[last.name] = "seed")
       => /\ ~last.raised
          /\ last.ncalls = 0
          /\ last.ret = seed[last.name]
  /\ (last.op = "register" /\ ~last.override /\ last.name \in DOMAIN seed)
       => last.raised
\* C14: an entry created by a get that found none counts as registered:
\* register(name, other, override=False) raises, get(name) still returns the
\* created store, and only a register with override=True replaces it.
C14_LazyEntryIsRegistered ==
  [][\A n \in Names :
       (how[n] = "factory" /\ last'.name = n)
         => /\ (last'.op = "register" /\ ~last'.override) => last'.raised
            /\ last'.op = "get" => ~last'.raised /\ last'.ret = expect[n]
            /\ DictGet(stores', n) # DictGet(stores, n)
                 => last'.op = "register" /\ last'.override /\ ~last'.raised]_vars

\* C15: a call leaves the entries of every name but its own as they were; a
\* get of a name that has an entry leaves the mapping unchanged; a get of a
\* name without an entry, when it returns, adds exactly the entry of that
\* name; no call changes the default factory.
C15_CallsTouchOnlyTheirName ==
  [][/\ \A m \in Names \ {last'.name} :
          /\ m \in DOMAIN stores' <=> m \in DOMAIN stores
          /\ DictGet(stores', m) = DictGet(stores, m)
     /\ (last'.op = "get" /\ last'.name \in DOMAIN stores)
          => stores' = stores
     /\ (last'.op = "get" /\ last'.name \notin DOMAIN stores /\ ~last'.raised)
          => /\ DOMAIN stores' = DOMAIN stores \cup {last'.name}
             /\ stores'[last'.name] = last'.ret
     /\ default_factory' = default_factory]_vars

(***************************************************************************)
(* SpecRegistries: two registries.  self._stores is a reference: dicts[k]  *)
(* is dict object k, map its contents, lit whether the `{}` of __init__    *)
(* created it.  The caller holds two dicts of its own, an empty one and    *)
(* one with an entry, and may pass either to a constructor.                *)
(***************************************************************************)

\* The stores arguments of __init__ as references: 0 is None.
StoresRefs(ds) == {0} \cup {k \in 1..Len(ds) : ~ds[k].lit}

\* `stores={}` as a default argument: one dict object for all registries.
SharedDefaultRef(arg, ds) ==
  IF arg = 0 \/ DOMAIN ds[arg].map = {}
  THEN IF \E k \in 1..Len(ds) : ds[k].lit
       THEN CHOOSE k \in 1..Len(ds) : ds[k].lit
       ELSE Len(ds) + 1
  ELSE arg

\* __init__, line 34: stores or {}; Len(ds) + 1 is the dict `{}` creates
StoresRef(arg, ds) ==
  IF arg = 0 \/ DOMAIN ds[arg].map = {} THEN Len(ds) + 1 ELSE arg

\* The contents of the dict registry r refers to.
Contents(ds, rs, r) == ds[rs[r].ref].map

InitRegistries ==
  \E kind \in {"default_default_factory", "custom"}, b \in BOOLEAN :
    /\ dicts = <<[map |-> EmptyDict, lit |-> FALSE],
                 [map |-> DictSet(EmptyDict, "a", [id |-> 1, falsy |-> b]),
                  lit |-> FALSE]>>
    /\ regs = [r \in Registries |-> NotMade]
    /\ acted = "none"
    /\ heap = <<b>>
    /\ default_factory = kind
    /\ stores = EmptyDict
    /\ seed = EmptyDict
    /\ how = [n \in Names |-> "absent"]
    /\ expect = [n \in Names |-> None]
    /\ last = NoCall
    /\ invoked = [n \in Names |-> 0]
    /\ th = [t \in Threads |-> Idle]
    /\ NoClient

\* The calls on the registries leave the single registry of Spec alone.
TwoRegistries ==
  UNCHANGED <<stores, seed, how, expect, last, invoked, th,
              client, given_handlers, app_handlers>>

\* r = StoreRegistry(stores=arg, default_factory=...)
new_registry(r, arg) ==
  /\ ~regs[r].made
  /\ arg \in StoresRefs(dicts)
  /\ LET ref == StoresRef(arg, dicts) IN
       /\ dicts' = IF ref = Len(dicts) + 1
                   THEN Append(dicts, [map |-> EmptyDict, lit |-> TRUE])
                   ELSE dicts
       /\ regs' = [regs EXCEPT ![r] = [made |-> TRUE, given |-> arg # 0, ref |-> ref]]
  /\ acted' = "none"
  /\ UNCHANGED <<heap, default_factory>>

\* r.register(name, store, override)
registry_register(r, name, store, override) ==
  /\ regs[r].made
  /\ store \in CallerStores(heap)
  /\ heap' = Alloc(heap, store)
  /\ Len(heap') <= MaxRegistryStores
  /\ dicts' = IF IsDuplicate(Contents(dicts, regs, r), name, override)
              THEN dicts                                    \* line 49
              ELSE [dicts EXCEPT ![regs[r].ref].map =       \* line 50
                      DictSet(Contents(dicts, regs, r), name, store)]
  /\ acted' = r
  /\ UNCHANGED <<regs, default_factory>>

\* r.get(name)
registry_get(r, name) ==
  /\ regs[r].made
  /\ IF Misses(DictGet(Contents(dicts, regs, r), name))     \* lines 62, 63
     THEN \/ \E new \in CallFactory(default_factory, name, heap) :   \* line 64
               /\ heap' = Alloc(heap, new)
               /\ Len(heap') <= MaxRegistryStores
               /\ dicts' = [dicts EXCEPT ![regs[r].ref].map =
                              DictSet(Contents(dicts, regs, r), name, new)]
          \/ /\ FactoryMayRaise(default_factory)
             /\ UNCHANGED <<heap, dicts>>
     ELSE UNCHANGED <<heap, dicts>>
  /\ acted' = r
  /\ UNCHANGED <<regs, default_factory>>

\* r.default
registry_default(r) == registry_get(r, "default")

NextRegistries ==
  \E r \in Registries :
    \/ \E arg \in StoresRefs(dicts) : new_registry(r, arg) /\ TwoRegistries
    \/ \E name \in Names, store \in CallerStores(heap), override \in BOOLEAN :
         registry_register(r, name, store, override) /\ TwoRegistries
    \/ \E name \in Names : registry_get(r, name) /\ TwoRegistries
    \/ registry_default(r) /\ TwoRegistries

SpecRegistries == InitRegistries /\ [][NextRegistries]_vars

\* C13: two registries constructed without a stores mapping refer to two
\* dict objects, and a call on one of them leaves the entries of the other
\* as they were.
C13_RegistriesShareNoMapping ==
  [][\A r, q \in Registries :
       (/\ r # q
        /\ regs[r].made /\ ~regs[r].given
        /\ regs[q].made /\ ~regs[q].given)
         => /\ regs[r].ref # regs[q].ref
            /\ acted' = r => Contents(dicts', regs', q) = Contents(dicts, regs, q)]_vars

\* C13 happens: both registries were constructed without a mapping, and the
\* calls made on r1 left it with an entry while r2 has none.
C13_Witness ==
  /\ \A r \in Registries : regs[r].made /\ ~regs[r].given
  /\ acted = "r1"
  /\ Contents(dicts, regs, "r1") # EmptyDict
  /\ Contents(dicts, regs, "r2") = EmptyDict

(***************************************************************************)
(* SpecClient: the test client factories of starlite/testing/helpers.py.   *)
(***************************************************************************)

HandlerTypes == {"handler", "router", "controller"}

RECURSIVE SeqsUpTo(_, _)
\* The sequences over S of length at most n.
SeqsUpTo(S, n) ==
  IF n = 0 THEN {<<>>}
  ELSE LET shorter == SeqsUpTo(S, n - 1) IN
         shorter \cup {Append(q, x) : q \in {p \in shorter : Len(p) = n - 1}, x \in S}

\* The route_handlers arguments.
RouteHandlersArgs ==
  {PyNone}
  \cup {[type |-> k, items |-> <<>>] : k \in HandlerTypes}
  \cup {[type |-> t, items |-> q] :
          t \in {"list", "tuple"}, q \in SeqsUpTo(HandlerTypes, MaxHandlers)}

\* isinstance(v, Sequence)
IsSequence(v) == v.type \in {"list", "tuple"}

\* is_class_and_subclass(v, Controller)
is_class_and_subclass(v) == v.type = "controller"

\* (v,)
TupleOf(v) == [type |-> "tuple", items |-> <<v.type>>]

\* The normalisation with its wrapping of a single handler left out.
UnwrappedHandlers(route_handlers) ==
  IF route_handlers = PyNone THEN EmptyTuple ELSE route_handlers

\* create_test_client, lines 184-186
create_test_client_handlers(route_handlers) ==
  LET rh == IF route_handlers = PyNone THEN EmptyTuple ELSE route_handlers IN
    IF is_class_and_subclass(rh) \/ ~IsSequence(rh) THEN TupleOf(rh) ELSE rh

\* create_async_test_client, lines 373-375
create_async_test_client_handlers(route_handlers) ==
  LET rh == IF route_handlers = PyNone THEN EmptyTuple ELSE route_handlers IN
    IF is_class_and_subclass(rh) \/ ~IsSequence(rh) THEN TupleOf(rh) ELSE rh

\* The factories leave the registries alone.
NoRegistry ==
  UNCHANGED <<stores, default_factory, heap, seed, how, expect, last, invoked, th,
              dicts, regs, acted>>

InitClient ==
  /\ NoClient
  /\ NoRegistries
  /\ stores = EmptyDict
  /\ default_factory = "default_default_factory"
  /\ heap = <<>>
  /\ seed = EmptyDict
  /\ how = [n \in Names |-> "absent"]
  /\ expect = [n \in Names |-> None]
  /\ last = NoCall
  /\ invoked = [n \in Names |-> 0]
  /\ th = [t \in Threads |-> Idle]

\* create_test_client(route_handlers): TestClient(app=Starlite(route_handlers=...))
create_test_client(route_handlers) ==
  /\ client' = "TestClient"
  /\ given_handlers' = route_handlers
  /\ app_handlers' = create_test_client_handlers(route_handlers)

\* create_async_test_client(route_handlers)
create_async_test_client(route_handlers) ==
  /\ client' = "AsyncTestClient"
  /\ given_handlers' = route_handlers
  /\ app_handlers' = create_async_test_client_handlers(route_handlers)

NextClient ==
  \/ \E rh \in RouteHandlersArgs : create_test_client(rh) /\ NoRegistry
  \/ \E rh \in RouteHandlersArgs : create_async_test_client(rh) /\ NoRegistry

SpecClient == InitClient /\ [][NextClient]_vars

\* C16: both factories normalise route_handlers the same way: None becomes an
\* empty sequence, a single handler (a Controller subclass or any value that
\* is not a sequence) becomes a one-element tuple holding it, a sequence is
\* passed through unchanged; the app always receives a sequence.
C16_RouteHandlersNormalised ==
  client # "none"
    => /\ IsSequence(app_handlers)
       /\ given_handlers = PyNone => app_handlers = EmptyTuple
       /\ given_handlers.type \in HandlerTypes
            => app_handlers = [type |-> "tuple", items |-> <<given_handlers.type>>]
       /\ IsSequence(given_handlers) => app_handlers = given_handlers
       /\ app_handlers = create_test_client_handlers(given_handlers)
       /\ app_handlers = create_async_test_client_handlers(given_handlers)

\* C16 happens: create_async_test_client was given a Controller subclass and
\* built its app with the one-element tuple holding it.
C16_Witness ==
  /\ client = "AsyncTestClient"
  /\ given_handlers.type = "controller"
  /\ app_handlers = [type |-> "tuple", items |-> <<"controller">>]

====
